---------------------------- MODULE Spec2Model ----------------------------
(***************************************************************************)
(* Model of src/lib/analyze.mjs: the sanitize-and-impute pass              *)
(* (sanitizeAndImpute), the analysis pipeline (analyzeWebsite) and the     *)
(* browser render with response interception (gatherResourceMetrics).      *)
(*                                                                         *)
(* JavaScript values of the numeric fields are records [k, n]:             *)
(*   k = "null"  null or undefined                                         *)
(*   k = "nan"   the number NaN                                            *)
(*   k = "num"   a finite number, n its value in units of 1/Scale          *)
(*   k = "str"   a non-numeric, non-empty string                           *)
(*   k = "sym"   a value whose conversion to number throws (a Symbol)      *)
(*   k = "throw" the evaluation raised a TypeError (results only)          *)
(***************************************************************************)
EXTENDS Integers, Sequences, FiniteSets, TLC

\* ------------------------------ bounds ---------------------------------
\* number of successive sanitizeAndImpute calls on one document
MaxPasses == 2
\* number of network responses arriving during one browser render
MaxResponses == 2
\* number of lines of a text given to textToHTML
MaxLines == 4

\* fixed-point unit: hundredths, halved once per sanitize pass
Scale == 100 * (2 ^ MaxPasses)

N(x) == x * Scale

\* ------------------------- JavaScript values ---------------------------
Null == [k |-> "null", n |-> 0]
NaN == [k |-> "nan", n |-> 0]
Str == [k |-> "str", n |-> 0]
Sym == [k |-> "sym", n |-> 0]
Throw == [k |-> "throw", n |-> 0]

Num(x) == [k |-> "num", n |-> x]

IsThrow(v) == v.k = "throw"

\* v == null
IsNullish(v) == v.k = "null"

\* truthiness of a value: null, NaN and 0 are falsy
Truthy(v) == \/ v.k \in {"str", "sym"}
             \/ v.k = "num" /\ v.n # 0

\* Number(v): null -> 0, a non-numeric string -> NaN, a Symbol throws
ToNumber(v) == CASE v.k = "num" -> v
                 [] v.k = "null" -> Num(0)
                 [] v.k = "sym" -> Throw
                 [] v.k = "throw" -> Throw
                 [] OTHER -> NaN

Min2(a, b) == IF a < b THEN a ELSE b
Max2(a, b) == IF a > b THEN a ELSE b

\* Math.floor in place of Math.round
MathRound_Floor(x) == (x \div Scale) * Scale

\* Math.round of a fixed-point number: nearest integer, halves upwards
MathRound(x) == ((2 * x + Scale) \div (2 * Scale)) * Scale

\* Math.round(x / k) for a positive integer k
RoundDiv(x, k) == ((2 * x + k * Scale) \div (2 * k * Scale)) * Scale

\* const isNumber = (v) => typeof v === 'number' && !Number.isNaN(v)
isNumber(v) == v.k = "num"

\* const clamp = (v, lo = 0, hi = 100) =>
\*   (v == null ? null : Math.max(lo, Math.min(hi, v)))
clamp(v) == IF IsNullish(v) THEN Null
            ELSE LET x == ToNumber(v)
                 IN IF x.k = "num" THEN Num(Max2(0, Min2(N(100), x.n))) ELSE x

\* a relational comparison (a >= b, a > b) of a value with a number:
\* false on NaN/undefined/strings, TypeError on a Symbol
CmpGE(v, c) == CASE v.k = "num" -> IF v.n >= c THEN "true" ELSE "false"
                 [] v.k = "null" -> IF 0 >= c THEN "true" ELSE "false"
                 [] v.k = "sym" -> "throw"
                 [] OTHER -> "false"

CmpGT(v, c) == CASE v.k = "num" -> IF v.n > c THEN "true" ELSE "false"
                 [] v.k = "null" -> IF 0 > c THEN "true" ELSE "false"
                 [] v.k = "sym" -> "throw"
                 [] OTHER -> "false"

\* ------------------- imputation descriptors and log --------------------
\* an entry of result._imputed: unset, or {estimated, method|reason}
NoImp == [set |-> FALSE, estimated |-> FALSE, method |-> "", a |-> Null, b |-> Null, c |-> Null]

Imp(est, meth, x, y, z) ==
    [set |-> TRUE, estimated |-> est, method |-> meth, a |-> x, b |-> y, c |-> z]

\* a sentence of imputationLog: the field it is about, its wording, and the
\* values interpolated into it
Entry(field, msg, x, y) == [f |-> field, m |-> msg, a |-> x, b |-> y]

\* --------------------------- sanitizeAndImpute -------------------------
\* The function runs on a record st = [d, log, threw]: d the document being
\* mutated, log the local `log` array, threw whether a TypeError escaped.
\* Every block below is skipped once threw is set.

ScoreNames == <<"seoScore", "accessibilityScore", "securityScore", "performanceEstimate">>

ResourceNames == <<"domNodes", "resourcesCount", "totalImageKB", "totalJsKB",
                   "thirdPartyRequests", "thirdPartyScripts">>

PerformanceNames == <<"performanceScore", "accessibilityScore">>

SetScore(d, name, v) == [d EXCEPT !.summarySignals[name] = v]

SetImputed(d, name, imp) == [d EXCEPT !.imputed[name] = imp]

\* result._imputed = result._imputed || {}; result.imputationLog = ... || []
SanStart(d) == [d |-> d, log |-> <<>>, threw |-> FALSE]

\* the seoScore checklist, 20 points per item present
SeoChecklist(d) ==
    (IF d.htmlMetrics.present /\ d.htmlMetrics.title THEN 20 ELSE 0)
  + (IF d.htmlMetrics.present /\ d.htmlMetrics.description THEN 20 ELSE 0)
  + (IF d.content.present /\ d.content.keywords > 0 THEN 20 ELSE 0)
  + (IF d.siteSignals.present /\ d.siteSignals.hasSitemap THEN 20 ELSE 0)
  + (IF d.htmlMetrics.present /\ d.htmlMetrics.h1_present THEN 20 ELSE 0)

SeoStep_ZeroIsInvalid(st) ==
    IF st.threw \/ ~st.d.summarySignals.present THEN st
    ELSE LET seo == st.d.summarySignals.seoScore
         IN IF ~isNumber(seo) \/ seo.n <= 0 \/ seo.n > N(100)
            THEN LET v == clamp(Num(N(SeoChecklist(st.d))))
                 IN [st EXCEPT
                       !.d = SetImputed(SetScore(st.d, "seoScore", v), "seoScore",
                                        Imp(TRUE, "heuristic: title/meta/h1/keywords/sitemap",
                                            Null, Null, Null)),
                       !.log = Append(st.log, Entry("seoScore", "missing/invalid -> estimated", v, Null))]
            ELSE [st EXCEPT !.d = SetScore(st.d, "seoScore", clamp(seo))]

\* 1) seoScore: recomputed when not a number or outside [0,100]
SeoStep(st) ==
    IF st.threw \/ ~st.d.summarySignals.present THEN st
    ELSE LET seo == st.d.summarySignals.seoScore
         IN IF ~isNumber(seo) \/ seo.n < 0 \/ seo.n > N(100)
            THEN LET v == clamp(Num(N(SeoChecklist(st.d))))
                 IN [st EXCEPT
                       !.d = SetImputed(SetScore(st.d, "seoScore", v), "seoScore",
                                        Imp(TRUE, "heuristic: title/meta/h1/keywords/sitemap",
                                            Null, Null, Null)),
                       !.log = Append(st.log, Entry("seoScore", "missing/invalid -> estimated", v, Null))]
            ELSE [st EXCEPT !.d = SetScore(st.d, "seoScore", clamp(seo))]

\* const lhAcc = result.performance && result.performance.accessibilityScore
LhAcc(d) == IF d.performance.present THEN d.performance.accessibilityScore ELSE Null

Abs(x) == IF x < 0 THEN -x ELSE x

\* accessibilityScore: reconciled with the Lighthouse accessibility score
AccStep(st) ==
    IF st.threw \/ ~st.d.summarySignals.present THEN st
    ELSE LET lhAcc == LhAcc(st.d)
             acc == st.d.summarySignals.accessibilityScore
         IN IF isNumber(lhAcc)
            THEN IF ~isNumber(acc)
                 THEN [st EXCEPT
                         !.d = SetImputed(SetScore(st.d, "accessibilityScore", clamp(lhAcc)),
                                          "accessibilityScore",
                                          Imp(TRUE, "from lighthouse accessibilityScore", Null, Null, Null)),
                         !.log = Append(st.log, Entry("accessibilityScore", "missing -> used lighthouse", lhAcc, Null))]
                 ELSE LET diff == Abs(acc.n - lhAcc.n)
                      IN IF diff > N(20)
                         THEN LET blended == Num(MathRound((acc.n + lhAcc.n) \div 2))
                              IN [st EXCEPT
                                    !.d = SetImputed(SetScore(st.d, "accessibilityScore", clamp(blended)),
                                                     "accessibilityScore",
                                                     Imp(TRUE, "blend heuristic avg due to diff", acc, lhAcc, Num(diff))),
                                    !.log = Append(st.log, Entry("accessibilityScore", "differ -> blended", Num(diff), blended))]
                         ELSE LET v == clamp(Num((acc.n + lhAcc.n) \div 2))
                              IN [st EXCEPT
                                    !.d = SetScore(st.d, "accessibilityScore", v),
                                    !.log = Append(st.log, Entry("accessibilityScore", "blended with lighthouse", v, Null))]
            ELSE LET v == clamp(IF ~IsNullish(acc) THEN acc ELSE Num(N(50)))
                 IN IF IsThrow(v) THEN [st EXCEPT !.threw = TRUE]
                    ELSE IF ~isNumber(acc)
                    THEN [st EXCEPT
                            !.d = SetImputed(SetScore(st.d, "accessibilityScore", v), "accessibilityScore",
                                             Imp(TRUE, "fallback default 50", Null, Null, Null)),
                            !.log = Append(st.log, Entry("accessibilityScore", "missing -> defaulted to 50", Null, Null))]
                    ELSE [st EXCEPT !.d = SetScore(st.d, "accessibilityScore", v)]

SecurityFlagsScore_Thirds(d) ==
    IF d.security.present
    THEN (IF d.security.hasCSP THEN 33 ELSE 0) + (IF d.security.hasHSTS THEN 33 ELSE 0)
         + (IF d.security.hasXFrame THEN 33 ELSE 0)
    ELSE 0

\* the security-header score: CSP 33, HSTS 33, X-Frame-Options 34
SecurityFlagsScore(d) ==
    IF d.security.present
    THEN (IF d.security.hasCSP THEN 33 ELSE 0) + (IF d.security.hasHSTS THEN 33 ELSE 0)
         + (IF d.security.hasXFrame THEN 34 ELSE 0)
    ELSE 0

\* securityScore: kept when a number, else derived from the header flags
SecStep(st) ==
    IF st.threw \/ ~st.d.summarySignals.present THEN st
    ELSE LET sec == st.d.summarySignals.securityScore
             v == clamp(IF isNumber(sec) THEN sec ELSE Num(N(SecurityFlagsScore(st.d))))
         IN IF ~isNumber(sec)
            THEN [st EXCEPT
                    !.d = SetImputed(SetScore(st.d, "securityScore", v), "securityScore",
                                     Imp(TRUE, "derived from security headers flags", Null, Null, Null)),
                    !.log = Append(st.log, Entry("securityScore", "missing -> derived from flags", Null, Null))]
            ELSE [st EXCEPT !.d = SetScore(st.d, "securityScore", v)]

\* Number(x || 0)
NumberOr0(v) == IF Truthy(v) THEN ToNumber(v) ELSE Num(0)

\* est = 100 - min(60, round(jsKB/10)) - min(30, round(imgKB/100))
\*           - min(20, round(dom/200)), NaN if any operand is NaN
PerfHeuristic(jsKB, imgKB, dom) ==
    IF jsKB.k # "num" \/ imgKB.k # "num" \/ dom.k # "num" THEN NaN
    ELSE clamp(Num(N(100) - Min2(N(60), RoundDiv(jsKB.n, 10))
                          - Min2(N(30), RoundDiv(imgKB.n, 100))
                          - Min2(N(20), RoundDiv(dom.n, 200))))

\* const lhPerf = result.performance && result.performance.performanceScore
LhPerf(d) == IF d.performance.present THEN d.performance.performanceScore ELSE Null

\* 2) performanceEstimate: kept (clamped) when a number; else the Lighthouse
\* score, else the heuristic from the resource totals, else null
PerfStep(st) ==
    IF st.threw \/ ~st.d.summarySignals.present THEN st
    ELSE LET perf == st.d.summarySignals.performanceEstimate
             lhPerf == LhPerf(st.d)
             r == st.d.resources
             jsKB == IF r.present THEN NumberOr0(r.totalJsKB) ELSE Num(0)
             imgKB == IF r.present THEN NumberOr0(r.totalImageKB) ELSE Num(0)
             dom == IF r.present THEN NumberOr0(r.domNodes) ELSE Num(0)
         IN IF isNumber(perf)
            THEN [st EXCEPT !.d = SetScore(st.d, "performanceEstimate", clamp(perf))]
            ELSE IF isNumber(lhPerf)
            THEN [st EXCEPT
                    !.d = SetImputed(SetScore(st.d, "performanceEstimate", clamp(lhPerf)),
                                     "performanceEstimate",
                                     Imp(TRUE, "lighthouse performanceScore", Null, Null, Null)),
                    !.log = Append(st.log, Entry("performanceEstimate", "missing -> used lighthouse", lhPerf, Null))]
            ELSE IF IsThrow(jsKB) \/ IsThrow(imgKB) \/ IsThrow(dom)
            THEN [st EXCEPT !.threw = TRUE]
            ELSE IF Truthy(jsKB) \/ Truthy(imgKB) \/ Truthy(dom)
            THEN LET est == PerfHeuristic(jsKB, imgKB, dom)
                 IN [st EXCEPT
                       !.d = SetImputed(SetScore(st.d, "performanceEstimate", est),
                                        "performanceEstimate",
                                        Imp(TRUE, "heuristic from totalJsKB/totalImageKB/domNodes", Null, Null, Null)),
                       !.log = Append(st.log, Entry("performanceEstimate", "missing -> heuristically estimated", est, Null))]
            ELSE [st EXCEPT
                    !.d = SetImputed(SetScore(st.d, "performanceEstimate", Null),
                                     "performanceEstimate",
                                     Imp(FALSE, "no lighthouse and no resource metrics", Null, Null, Null)),
                    !.log = Append(st.log, Entry("performanceEstimate", "could not be estimated", Null, Null))]

ImageKBStep_Times100(st) ==
    IF st.threw \/ ~st.d.resources.present THEN st
    ELSE LET images == IF st.d.htmlMetrics.present THEN st.d.htmlMetrics.images ELSE Null
         IN IF IsNullish(st.d.resources.totalImageKB) /\ isNumber(images)
            THEN LET estImgKB == Num(MathRound(images.n * 100))
                 IN [st EXCEPT
                       !.d = SetImputed([st.d EXCEPT !.resources.totalImageKB = estImgKB],
                                        "totalImageKB",
                                        Imp(TRUE, "images_count * 120KB", images, Null, Null)),
                       !.log = Append(st.log, Entry("totalImageKB", "missing -> estimated from img(s) * 120KB", estImgKB, images))]
            ELSE st

\* 3) totalImageKB back-fill: images * 120 when absent and images is a number
ImageKBStep(st) ==
    IF st.threw \/ ~st.d.resources.present THEN st
    ELSE LET images == IF st.d.htmlMetrics.present THEN st.d.htmlMetrics.images ELSE Null
         IN IF IsNullish(st.d.resources.totalImageKB) /\ isNumber(images)
            THEN LET estImgKB == Num(MathRound(images.n * 120))
                 IN [st EXCEPT
                       !.d = SetImputed([st.d EXCEPT !.resources.totalImageKB = estImgKB],
                                        "totalImageKB",
                                        Imp(TRUE, "images_count * 120KB", images, Null, Null)),
                       !.log = Append(st.log, Entry("totalImageKB", "missing -> estimated from img(s) * 120KB", estImgKB, images))]
            ELSE st

\* the back-fill without the test for an absent total
JsKBStep_Overwrites(st) ==
    IF st.threw \/ ~st.d.resources.present THEN st
    ELSE LET count == st.d.resources.resourcesCount
         IN IF isNumber(count)
            THEN LET estJsKB == Num(MathRound(count.n * 15))
                 IN [st EXCEPT
                       !.d = SetImputed([st.d EXCEPT !.resources.totalJsKB = estJsKB],
                                        "totalJsKB",
                                        Imp(TRUE, "resources_count * 15KB", count, Null, Null)),
                       !.log = Append(st.log, Entry("totalJsKB", "missing -> estimated from resourcesCount * 15KB", estJsKB, Null))]
            ELSE st

\* 3) totalJsKB back-fill: resourcesCount * 15 when absent
JsKBStep(st) ==
    IF st.threw \/ ~st.d.resources.present THEN st
    ELSE LET count == st.d.resources.resourcesCount
         IN IF IsNullish(st.d.resources.totalJsKB) /\ isNumber(count)
            THEN LET estJsKB == Num(MathRound(count.n * 15))
                 IN [st EXCEPT
                       !.d = SetImputed([st.d EXCEPT !.resources.totalJsKB = estJsKB],
                                        "totalJsKB",
                                        Imp(TRUE, "resources_count * 15KB", count, Null, Null)),
                       !.log = Append(st.log, Entry("totalJsKB", "missing -> estimated from resourcesCount * 15KB", estJsKB, Null))]
            ELSE st

High == "High (500k+/mo)"
Mid == "Mid (50k-300k/mo)"
Small == "Small (<50k/mo)"
Unknown == "Unknown"

\* a || b over the three-valued results of comparisons, left to right
Or3(a, b) == IF a = "throw" THEN "throw" ELSE IF a = "true" THEN "true" ELSE b

\* the band guessed by the fallback: "" for none, "throw" on a TypeError
TrafficGuess(d) ==
    LET t == d.trafficEstimate
        pages == IF t.indicators.present THEN t.indicators.pagesIndexed ELSE Null
        blog == IF t.indicators.present THEN t.indicators.blogPostsEstimate ELSE Null
        manyHeaders == IF d.content.present /\ d.content.headers > 200 THEN "true" ELSE "false"
        high == Or3(CmpGE(pages, N(1000)), manyHeaders)
        mid == Or3(CmpGE(pages, N(200)), CmpGE(blog, N(20)))
        small == Or3(CmpGT(pages, 0), CmpGT(blog, 0))
    IN CASE high = "throw" -> "throw"
         [] high = "true" -> High
         [] mid = "throw" -> "throw"
         [] mid = "true" -> Mid
         [] small = "throw" -> "throw"
         [] small = "true" -> Small
         [] OTHER -> ""

\* 4) traffic fallback, on the top-level result.trafficEstimate
TrafficStep(st) ==
    IF st.threw \/ ~st.d.trafficEstimate.present THEN st
    ELSE IF st.d.trafficEstimate.estimatedTrafficClass \notin {"", Unknown} THEN st
    ELSE LET guessed == TrafficGuess(st.d)
             blog == IF st.d.trafficEstimate.indicators.present
                     THEN st.d.trafficEstimate.indicators.blogPostsEstimate ELSE Null
         IN IF guessed = "throw" THEN [st EXCEPT !.threw = TRUE]
            ELSE IF guessed # ""
            THEN [st EXCEPT
                    !.d = SetImputed([st.d EXCEPT !.trafficEstimate.estimatedTrafficClass = guessed],
                                     "trafficEstimate",
                                     Imp(TRUE, "heuristic from sitemap pages and blog links", Null, Null, Null)),
                    \* the sentence interpolates blog: a Symbol throws there
                    !.threw = (blog.k = "sym"),
                    !.log = IF blog.k = "sym" THEN st.log
                            ELSE Append(st.log, Entry("trafficEstimate", guessed, Null, Null))]
            ELSE [st EXCEPT
                    !.d = SetImputed([st.d EXCEPT !.trafficEstimate.estimatedTrafficClass = Unknown],
                                     "trafficEstimate",
                                     Imp(FALSE, "insufficient signals (no sitemap/pages/blog links)", Null, Null, Null)),
                    !.log = Append(st.log, Entry("trafficEstimate", "could not be guessed", Null, Null))]

BusinessGuess_DefaultSaas(d) ==
    LET bi == d.businessInsights
        fromTech == d.hosting.present /\ d.hosting.vercel
        hasCheckout == d.conversionSignals.present /\ d.conversionSignals.hasCheckout
    IN IF hasCheckout \/ (bi.pricing.present /\ bi.pricing.isSubscription = "false"
                          /\ bi.pricing.hasTransparentPricing)
       THEN "ecommerce"
       ELSE "saas"

\* the secondary guess of the business model: "" when no decisive signal
BusinessGuess(d) ==
    LET bi == d.businessInsights
        fromTech == d.hosting.present /\ d.hosting.vercel
        hasCheckout == d.conversionSignals.present /\ d.conversionSignals.hasCheckout
    IN IF hasCheckout \/ (bi.pricing.present /\ bi.pricing.isSubscription = "false"
                          /\ bi.pricing.hasTransparentPricing)
       THEN "ecommerce"
       ELSE IF bi.pricing.present /\ bi.pricing.isSubscription = "true" THEN "saas"
       ELSE IF fromTech THEN "saas"
       ELSE ""

BizStep_OverwritesKnown(st) ==
    IF st.threw \/ ~st.d.businessInsights.present THEN st
    ELSE LET bm == st.d.businessInsights.businessModel
         IN IF bm.present /\ bm.inferredModel \notin {"", "unknown", "media"} THEN st
            ELSE LET guess == BusinessGuess(st.d)
                 IN IF guess # ""
                    THEN [st EXCEPT
                            !.d = SetImputed([st.d EXCEPT !.businessInsights.businessModel =
                                                 [present |-> TRUE, inferredModel |-> guess]],
                                             "businessModel",
                                             Imp(TRUE, "heuristic based on conversionSignals/tech", Null, Null, Null)),
                            !.log = Append(st.log, Entry("businessModel", guess, Null, Null))]
                    ELSE [st EXCEPT
                            !.d = SetImputed(st.d, "businessModel",
                                             Imp(FALSE, "no decisive conversion/tech signal", Null, Null, Null)),
                            !.log = Append(st.log, Entry("businessModel", "could not be determined", Null, Null))]

\* 5) business model fallback when inferredModel is missing or 'unknown'
BizStep(st) ==
    IF st.threw \/ ~st.d.businessInsights.present THEN st
    ELSE LET bm == st.d.businessInsights.businessModel
         IN IF bm.present /\ bm.inferredModel \notin {"", "unknown"} THEN st
            ELSE LET guess == BusinessGuess(st.d)
                 IN IF guess # ""
                    THEN [st EXCEPT
                            !.d = SetImputed([st.d EXCEPT !.businessInsights.businessModel =
                                                 [present |-> TRUE, inferredModel |-> guess]],
                                             "businessModel",
                                             Imp(TRUE, "heuristic based on conversionSignals/tech", Null, Null, Null)),
                            !.log = Append(st.log, Entry("businessModel", guess, Null, Null))]
                    ELSE [st EXCEPT
                            !.d = SetImputed(st.d, "businessModel",
                                             Imp(FALSE, "no decisive conversion/tech signal", Null, Null, Null)),
                            !.log = Append(st.log, Entry("businessModel", "could not be determined", Null, Null))]

WatchFields_TitleOnce(d) ==
    << <<"canonical", d.canonical>>,
       <<"metadata.title", (d.metadata.present /\ d.metadata.title)
                           \/ (d.openGraph.present /\ d.openGraph.ogTitle)>>,
       <<"openGraph.ogTitle", d.openGraph.present /\ d.openGraph.ogTitle>>,
       <<"htmlMetrics.title", d.htmlMetrics.present /\ d.htmlMetrics.title>> >>

\* the watched fields and whether each is present (truthy)
WatchFields(d) ==
    << <<"canonical", d.canonical>>,
       <<"metadata.title", d.metadata.present /\ d.metadata.title>>,
       <<"openGraph.ogTitle", d.openGraph.present /\ d.openGraph.ogTitle>>,
       <<"htmlMetrics.title", d.htmlMetrics.present /\ d.htmlMetrics.title>> >>

RECURSIVE MissingEntries(_)
MissingEntries(fields) ==
    IF fields = <<>> THEN <<>>
    ELSE (IF Head(fields)[2] THEN <<>>
          ELSE <<Entry(Head(fields)[1], "Missing: not found on page", Null, Null)>>)
         \o MissingEntries(Tail(fields))

\* 6) "Missing: ..." entries are pushed straight onto result.imputationLog
WatchStep(st) ==
    IF st.threw THEN st
    ELSE [st EXCEPT !.d.imputationLog = st.d.imputationLog \o MissingEntries(WatchFields(st.d))]

\* forEach(k => { if (rec[k] != null) rec[k] = Number(rec[k]) }) over names;
\* a throwing Number() aborts the loop with the earlier fields converted
RECURSIVE TidyRec(_, _)
TidyRec(rec, names) ==
    IF names = <<>> THEN [rec |-> rec, threw |-> FALSE]
    ELSE LET k == Head(names)
             v == rec[k]
         IN IF IsNullish(v) THEN TidyRec(rec, Tail(names))
            ELSE IF IsThrow(ToNumber(v)) THEN [rec |-> rec, threw |-> TRUE]
            ELSE TidyRec([rec EXCEPT ![k] = ToNumber(v)], Tail(names))

\* 7) numeric tidy inside try/catch: a failure is logged, not thrown
TidyStep(st) ==
    IF st.threw THEN st
    ELSE LET r1 == IF st.d.resources.present THEN TidyRec(st.d.resources, ResourceNames)
                   ELSE [rec |-> st.d.resources, threw |-> FALSE]
             r2 == IF ~r1.threw /\ st.d.summarySignals.present
                   THEN TidyRec(st.d.summarySignals, ScoreNames)
                   ELSE [rec |-> st.d.summarySignals, threw |-> r1.threw]
             r3 == IF ~r2.threw /\ st.d.performance.present
                   THEN TidyRec(st.d.performance, PerformanceNames)
                   ELSE [rec |-> st.d.performance, threw |-> r2.threw]
         IN [st EXCEPT
               !.d = [st.d EXCEPT !.resources = r1.rec, !.summarySignals = r2.rec,
                                  !.performance = r3.rec],
               !.log = IF r3.threw
                       THEN Append(st.log, Entry("types", "Type normalization encountered an issue", Null, Null))
                       ELSE st.log]

\* the local log assigned in place of the concatenation
AttachStep_Replaces(st) ==
    IF st.threw THEN st
    ELSE [st EXCEPT !.d.imputationLog = st.log]

\* 8) result.imputationLog = result.imputationLog.concat(log)
AttachStep(st) ==
    IF st.threw THEN st
    ELSE [st EXCEPT !.d.imputationLog = st.d.imputationLog \o st.log]

\* the whole function: the final st.d is the document (mutated in place),
\* st.threw tells whether the call threw instead of returning it
sanitizeAndImpute(result) ==
    AttachStep(TidyStep(WatchStep(BizStep(TrafficStep(JsKBStep(ImageKBStep(
        PerfStep(SecStep(AccStep(SeoStep(SanStart(result))))))))))))

\* ------------------------------ documents ------------------------------
\* An AnalysisResult restricted to the fields sanitizeAndImpute reads or
\* writes.  A sub-record that is missing has present = FALSE.  Fields whose
\* only use is a truthiness test are booleans; array fields are lengths.
ImputedNames == {"seoScore", "accessibilityScore", "securityScore", "performanceEstimate",
                 "totalImageKB", "totalJsKB", "trafficEstimate", "businessModel"}

NoImputed == [name \in ImputedNames |-> NoImp]

NoTraffic == [present |-> FALSE, estimatedTrafficClass |-> "",
              indicators |-> [present |-> FALSE, pagesIndexed |-> Null, blogPostsEstimate |-> Null]]

\* a well-formed document with nothing to repair
BaseDoc ==
    [ summarySignals |-> [present |-> TRUE, seoScore |-> Num(N(80)),
                          accessibilityScore |-> Num(N(80)), securityScore |-> Num(N(67)),
                          performanceEstimate |-> Num(N(70))],
      performance |-> [present |-> FALSE, performanceScore |-> Null, accessibilityScore |-> Null],
      htmlMetrics |-> [present |-> TRUE, title |-> TRUE, description |-> TRUE,
                       h1_present |-> TRUE, images |-> Num(N(3))],
      content |-> [present |-> TRUE, keywords |-> 5, headers |-> 4],
      siteSignals |-> [present |-> TRUE, hasSitemap |-> FALSE],
      security |-> [present |-> TRUE, hasCSP |-> TRUE, hasHSTS |-> FALSE, hasXFrame |-> TRUE],
      resources |-> [present |-> TRUE, domNodes |-> Num(N(400)), resourcesCount |-> Num(N(12)),
                     totalImageKB |-> Num(N(300)), totalJsKB |-> Num(N(250)),
                     thirdPartyRequests |-> Num(N(4)), thirdPartyScripts |-> Num(N(2))],
      trafficEstimate |-> NoTraffic,
      businessInsights |-> [present |-> TRUE,
                            businessModel |-> [present |-> TRUE, inferredModel |-> "agency"],
                            pricing |-> [present |-> TRUE, isSubscription |-> "false",
                                         hasTransparentPricing |-> FALSE],
                            marginEstimate |-> [present |-> TRUE, low |-> 30, high |-> 60,
                                                estimate |-> 45],
                            trafficEstimate |-> [NoTraffic EXCEPT !.present = TRUE,
                                                 !.estimatedTrafficClass = Small,
                                                 !.indicators = [present |-> TRUE,
                                                                 pagesIndexed |-> Num(N(3)),
                                                                 blogPostsEstimate |-> Num(0)]]],
      hosting |-> [present |-> TRUE, vercel |-> FALSE, cloudflare |-> FALSE],
      conversionSignals |-> [present |-> TRUE, hasCheckout |-> FALSE],
      canonical |-> TRUE,
      metadata |-> [present |-> TRUE, title |-> TRUE],
      openGraph |-> [present |-> TRUE, ogTitle |-> TRUE],
      imputed |-> NoImputed,
      imputationLog |-> <<>> ]

\* ------------------------- input documents ------------------------------
AnyVals == {Null, NaN, Str, Sym}

ScoreVals == AnyVals \cup {Num(N(x)) : x \in {-10, 0, 55, 75, 100, 150}}

LhVals == {Null, NaN} \cup {Num(N(x)) : x \in {0, 30, 75, 80, 100, 130}}

\* accessibilityScore against performance.accessibilityScore
AccDocs ==
    {[BaseDoc EXCEPT !.summarySignals.accessibilityScore = a,
                     !.performance = [present |-> TRUE, performanceScore |-> Null,
                                      accessibilityScore |-> l]] :
        a \in ScoreVals, l \in LhVals}
    \cup {[BaseDoc EXCEPT !.summarySignals.accessibilityScore = a] : a \in ScoreVals}

\* seoScore against the checklist
SeoDocs ==
    {[BaseDoc EXCEPT !.summarySignals.seoScore = v,
                     !.htmlMetrics.title = t, !.htmlMetrics.description = t,
                     !.metadata.title = t,
                     !.htmlMetrics.h1_present = h,
                     !.content.keywords = k,
                     !.siteSignals.hasSitemap = m] :
        v \in ScoreVals, t \in BOOLEAN, h \in BOOLEAN, k \in {0, 5}, m \in BOOLEAN}

\* securityScore against the header flags
SecDocs ==
    {[BaseDoc EXCEPT !.summarySignals.securityScore = v,
                     !.security = [present |-> p, hasCSP |-> c, hasHSTS |-> h, hasXFrame |-> x]] :
        v \in ScoreVals, p \in BOOLEAN, c \in BOOLEAN, h \in BOOLEAN, x \in BOOLEAN}

KBVals == {Null, NaN, Str, Sym} \cup {Num(N(x)) : x \in {0, 95, 700, 4000}}

\* performanceEstimate against performance.performanceScore and the totals
PerfDocs ==
    {[BaseDoc EXCEPT !.summarySignals.performanceEstimate = v,
                     !.performance = [present |-> l # Null, performanceScore |-> l,
                                      accessibilityScore |-> Null],
                     !.resources.totalJsKB = j,
                     !.resources.totalImageKB = i,
                     !.resources.domNodes = n] :
        v \in {Null, NaN, Str, Num(N(-10)), Num(N(70)), Num(N(150))},
        l \in {Null, Num(N(90)), Num(N(130))},
        j \in KBVals, i \in {Null, NaN, Num(N(95)), Num(N(4000))},
        n \in {Null, Sym, Num(N(500)), Num(N(9000))}}

\* the resource totals against the counts they are back-filled from
ResDocs ==
    {[BaseDoc EXCEPT !.resources.totalImageKB = i,
                     !.resources.totalJsKB = j,
                     !.resources.resourcesCount = c,
                     !.resources.thirdPartyRequests = t,
                     !.htmlMetrics.images = g] :
        i \in {Null, Num(N(300))}, j \in {Null, Str, Num(N(250))},
        c \in {Null, NaN, Sym, Num(0), Num(N(12))},
        t \in {Null, Str, Num(N(4))},
        g \in {Null, Str, Num(0), Num(N(10))}}

PageVals == {Null, Str, Sym} \cup {Num(N(x)) : x \in {0, 50, 200, 201, 1000, 1001, 1500}}

BlogVals == {Null, Sym} \cup {Num(N(x)) : x \in {0, 20, 21, 25, 101}}

\* a top-level trafficEstimate
TrafficDocs ==
    {[BaseDoc EXCEPT !.trafficEstimate =
          [present |-> TRUE, estimatedTrafficClass |-> c,
           indicators |-> [present |-> TRUE, pagesIndexed |-> p, blogPostsEstimate |-> b]],
        !.content.headers = h] :
        c \in {"", Unknown, Small}, p \in PageVals, b \in BlogVals, h \in {4, 201}}

Models == {"ecommerce", "saas", "marketplace", "enterprise", "agency", "media",
           "app_product", "consulting"}

\* the business model against the secondary signals
BizDocs ==
    {[BaseDoc EXCEPT !.businessInsights.businessModel = [present |-> m # "absent",
                                                          inferredModel |-> IF m = "absent" THEN "" ELSE m],
                     !.businessInsights.pricing = [present |-> s # "absent",
                                                   isSubscription |-> s,
                                                   hasTransparentPricing |-> t],
                     !.conversionSignals.hasCheckout = k,
                     !.hosting.vercel = v] :
        m \in {"absent", "", "unknown", "saas", "media"},
        s \in {"absent", "true", "false"}, t \in BOOLEAN, k \in BOOLEAN, v \in BOOLEAN}

\* the watched metadata fields
MetaDocs ==
    {[BaseDoc EXCEPT !.canonical = c,
                     !.metadata = [present |-> m # "absent", title |-> m = "title"],
                     !.openGraph = [present |-> o # "absent", ogTitle |-> o = "title"],
                     !.htmlMetrics.title = h] :
        c \in BOOLEAN, m \in {"absent", "none", "title"}, o \in {"absent", "none", "title"},
        h \in BOOLEAN}

\* documents lacking sub-records
SparseDocs ==
    {[BaseDoc EXCEPT !.summarySignals.present = a,
                     !.htmlMetrics.present = b, !.content.present = b,
                     !.siteSignals.present = c, !.security.present = c,
                     !.resources.present = e,
                     !.businessInsights.present = f,
                     !.hosting.present = g, !.conversionSignals.present = g,
                     !.metadata.present = h, !.openGraph.present = h,
                     !.summarySignals.seoScore = s,
                     !.summarySignals.performanceEstimate = s,
                     !.businessInsights.businessModel.inferredModel = m] :
        a \in BOOLEAN, b \in BOOLEAN, c \in BOOLEAN, e \in BOOLEAN, f \in BOOLEAN,
        g \in BOOLEAN, h \in BOOLEAN, s \in {Null, Num(N(80))}, m \in {"unknown", "agency"}}

InputDocs == AccDocs \cup SeoDocs \cup SecDocs \cup PerfDocs \cup ResDocs
             \cup TrafficDocs \cup BizDocs \cup MetaDocs \cup SparseDocs

\* ----------------------- gatherResourceMetrics ---------------------------
\* the responses a render can intercept: a third-party script, a
\* first-party image, an image whose body cannot be read (res.buffer()
\* rejects), and a data: URL (which the callback ignores)
ResponseKinds ==
    { [http |-> TRUE, type |-> "script", third |-> TRUE, bytes |-> 3145728, readable |-> TRUE],
      [http |-> TRUE, type |-> "image", third |-> FALSE, bytes |-> 1000, readable |-> TRUE],
      [http |-> TRUE, type |-> "image", third |-> FALSE, bytes |-> 0, readable |-> FALSE],
      [http |-> FALSE, type |-> "image", third |-> FALSE, bytes |-> 64, readable |-> TRUE] }

\* resources.push({url, resourceType, status, size, headers}); size is null
\* when res.buffer() failed
Pushed(kind, sized) == [type |-> kind.type, third |-> kind.third,
                        size |-> IF sized THEN kind.bytes ELSE 0, sized |-> sized]

RECURSIVE SumBytes(_, _)
SumBytes(list, type) ==
    IF list = <<>> THEN 0
    ELSE (IF Head(list).type = type THEN Head(list).size ELSE 0) + SumBytes(Tail(list), type)

RECURSIVE Count(_, _, _)
Count(list, types, thirdOnly) ==
    IF list = <<>> THEN 0
    ELSE (IF Head(list).type \in types /\ (Head(list).third \/ ~thirdOnly) THEN 1 ELSE 0)
         + Count(Tail(list), types, thirdOnly)

\* Number((bytes / 1024).toFixed(2)): kilobytes rounded to hundredths
ToFixed2KB(bytes) == Num(((200 * bytes + 1024) \div 2048) * (Scale \div 100))

NoMetrics == [present |-> FALSE, domNodes |-> Null, resourcesCount |-> 0,
              totalImageKB |-> Null, totalJsKB |-> Null,
              thirdPartyRequests |-> 0, thirdPartyScripts |-> 0, sample |-> 0]

\* the metrics derived from the resource list as it is at that moment
DeriveMetrics(list, dom) ==
    [present |-> TRUE, domNodes |-> dom, resourcesCount |-> Len(list),
     totalImageKB |-> ToFixed2KB(SumBytes(list, "image")),
     totalJsKB |-> ToFixed2KB(SumBytes(list, "script")),
     thirdPartyRequests |-> Count(list, {"image", "script"}, TRUE),
     thirdPartyScripts |-> Count(list, {"script"}, TRUE),
     sample |-> Min2(Len(list), 50)]

Remove(seq, i) == SubSeq(seq, 1, i - 1) \o SubSeq(seq, i + 1, Len(seq))

\* ------------------------------ extraction ------------------------------
\* What the extractors find in the html, the response headers and the
\* site's sitemap, as far as the assembled document depends on it.
JsonLdKinds == {"none", "invalid", "null", "typed", "graph", "graphNotArray", "graphNullItem"}

BasePage ==
    [ title |-> TRUE, description |-> TRUE, h1 |-> TRUE, keywords |-> 5,
      canonical |-> TRUE, ogTitle |-> TRUE, metaTitle |-> TRUE,
      images |-> 3, blogLinks |-> 0, jsonLd |-> "none",
      sitemap |-> [found |-> TRUE, pages |-> 3],
      signals |-> {"agency"},
      isSubscription |-> FALSE, hasTransparentPricing |-> FALSE, hasCart |-> FALSE,
      unlabeledButtons |-> FALSE, linksWithoutText |-> FALSE, noAria |-> FALSE,
      hasCSP |-> TRUE, hasHSTS |-> FALSE, hasXFrame |-> TRUE, vercel |-> FALSE,
      shopify |-> FALSE, wordpress |-> FALSE, nextjs |-> FALSE, react |-> FALSE,
      cloudflare |-> FALSE ]

SeoPages ==
    {[BasePage EXCEPT !.title = t, !.metaTitle = t, !.description = d, !.h1 = d,
                      !.keywords = IF t THEN 5 ELSE 0,
                      !.sitemap = [found |-> m, pages |-> IF m THEN 3 ELSE 0]] :
        t \in BOOLEAN, d \in BOOLEAN, m \in BOOLEAN}

LdPages == {[BasePage EXCEPT !.jsonLd = j] : j \in JsonLdKinds}

\* a cart link is one of the ecommerce signals
BizPages ==
    {[BasePage EXCEPT !.signals = g] :
        g \in {{"saas"}, {"ecommerce", "saas"}, {"media"}, {"agency", "consulting"}}}
    \cup {[BasePage EXCEPT !.signals = {}, !.isSubscription = s, !.hasTransparentPricing = t] :
            s \in BOOLEAN, t \in BOOLEAN}
    \cup {[BasePage EXCEPT !.signals = IF c THEN {"ecommerce"} ELSE {},
                           !.hasCart = c, !.vercel = v] : c \in BOOLEAN, v \in BOOLEAN}

TrafficPages ==
    {[BasePage EXCEPT !.sitemap = [found |-> n > 0, pages |-> n], !.blogLinks = b] :
        n \in {0, 300, 1500}, b \in {0, 101}}

SignalPages ==
    {[BasePage EXCEPT !.unlabeledButtons = u, !.linksWithoutText = u, !.noAria = a] :
        u \in BOOLEAN, a \in BOOLEAN}
    \cup {[BasePage EXCEPT !.hasCSP = c, !.hasHSTS = c, !.hasXFrame = c,
                           !.canonical = k, !.ogTitle = k] :
            c \in BOOLEAN, k \in BOOLEAN}

\* platform and framework markers in the html, a cf-ray response header
TechPages ==
    {[BasePage EXCEPT !.signals = g, !.shopify = s, !.react = r] :
        g \in {{"saas"}, {"marketplace"}}, s \in BOOLEAN, r \in BOOLEAN}
    \cup {[BasePage EXCEPT !.signals = {"saas"}, !.cloudflare = TRUE],
          [BasePage EXCEPT !.signals = {"marketplace"}, !.shopify = TRUE, !.cloudflare = TRUE],
          [BasePage EXCEPT !.wordpress = TRUE],
          [BasePage EXCEPT !.nextjs = TRUE]}

Pages == SeoPages \cup LdPages \cup BizPages \cup TrafficPages \cup SignalPages \cup TechPages

NoLighthouse == [present |-> FALSE, performanceScore |-> Null, accessibilityScore |-> Null]

\* runLighthouse resolves to null on any failure, else to rounded scores
LighthouseResults ==
    {NoLighthouse} \cup
    {[present |-> TRUE, performanceScore |-> Num(N(p)), accessibilityScore |-> Num(N(a))] :
        p \in {40, 90}, a \in {75}}

Ordering_SaasFirst == <<"saas", "ecommerce", "marketplace", "enterprise", "agency", "media",
                        "app_product", "consulting">>

\* const ordering = [...]; ordering.find(k => scores[k]) || 'unknown'
Ordering == <<"ecommerce", "saas", "marketplace", "enterprise", "agency", "media",
              "app_product", "consulting">>

RECURSIVE FirstIn(_, _)
FirstIn(order, signals) ==
    IF order = <<>> THEN "unknown"
    ELSE IF Head(order) \in signals THEN Head(order)
    ELSE FirstIn(Tail(order), signals)

detectBusinessModel(pg) == [present |-> TRUE, inferredModel |-> FirstIn(Ordering, pg.signals)]

estimateTrafficClass_AtThreshold(pg, m) ==
    LET pages == pg.sitemap.pages
        blogLinks == pg.blogLinks
        classLabel == IF pages >= 1000 \/ blogLinks >= 100 \/ (m.present /\ m.resourcesCount >= 1000)
                      THEN High
                      ELSE IF pages >= 200 \/ blogLinks >= 20 THEN Mid
                      ELSE Small
    IN [present |-> TRUE, estimatedTrafficClass |-> classLabel,
        indicators |-> [present |-> TRUE, pagesIndexed |-> Num(N(pages)),
                        blogPostsEstimate |-> Num(N(blogLinks))]]

\* estimateTrafficClass: pages = sitemapInfo.pages || 0, blogLinks counted
\* in the html, resourcesCount from the resource summary
estimateTrafficClass(pg, m) ==
    LET pages == pg.sitemap.pages
        blogLinks == pg.blogLinks
        classLabel == IF pages > 1000 \/ blogLinks > 100 \/ (m.present /\ m.resourcesCount > 1000)
                      THEN High
                      ELSE IF pages > 200 \/ blogLinks > 20 THEN Mid
                      ELSE Small
    IN [present |-> TRUE, estimatedTrafficClass |-> classLabel,
        indicators |-> [present |-> TRUE, pagesIndexed |-> Num(N(pages)),
                        blogPostsEstimate |-> Num(N(blogLinks))]]

\* detectTech: the platform and framework flags tested on the html; the
\* returned object has no cloudflare key
detectTech(pg) ==
    [shopify |-> pg.shopify, wordpress |-> pg.wordpress, nextjs |-> pg.nextjs, react |-> pg.react]

\* reading a property that an object may lack: undefined is falsy
Prop(obj, key) == key \in DOMAIN obj /\ obj[key]

\* const base = {...}[model] || { low: 20, high: 60 }
BaseBand(model) ==
    CASE model = "saas" -> [low |-> 70, high |-> 90]
      [] model = "ecommerce" -> [low |-> 20, high |-> 60]
      [] model \in {"marketplace", "media"} -> [low |-> 10, high |-> 40]
      [] model \in {"agency", "consulting"} -> [low |-> 30, high |-> 60]
      [] OTHER -> [low |-> 20, high |-> 60]

\* estimateMargin: the base band moved by adj and limited to [0,100];
\* estimate is Math.round((low + high) / 2) in percent
estimateMargin(model, tech, resourceSummary) ==
    LET base == BaseBand(model)
        adj == (IF Prop(tech, "shopify") \/ Prop(tech, "wordpress") THEN -10 ELSE 0)
               + (IF Prop(tech, "nextjs") \/ Prop(tech, "react") THEN 5 ELSE 0)
               + (IF /\ Truthy(resourceSummary.totalJsKB)
                     /\ CmpGT(resourceSummary.totalJsKB, N(2000)) = "true"
                  THEN -5 ELSE 0)
               + (IF Prop(tech, "cloudflare") THEN 3 ELSE 0)
        low == Max2(0, base.low + adj)
        high == Min2(100, base.high + adj)
    IN [present |-> TRUE, low |-> low, high |-> high,
        estimate |-> MathRound(N(low + high) \div 2) \div Scale]

\* the response headers the security and hosting flags are read from: the
\* fetch response's, else those of a sampled render response, else none
HeadersAvailable(fr, m) == fr.got \/ (m.present /\ m.sample > 0)

\* const resourceSummary = resourceMetrics ? {...} : {all null}
ResourceSummary(m) ==
    IF m.present
    THEN [present |-> TRUE, domNodes |-> m.domNodes, resourcesCount |-> Num(N(m.resourcesCount)),
          totalImageKB |-> m.totalImageKB, totalJsKB |-> m.totalJsKB,
          thirdPartyRequests |-> Num(N(m.thirdPartyRequests)),
          thirdPartyScripts |-> Num(N(m.thirdPartyScripts))]
    ELSE [present |-> TRUE, domNodes |-> Null, resourcesCount |-> Null,
          totalImageKB |-> Null, totalJsKB |-> Null,
          thirdPartyRequests |-> Null, thirdPartyScripts |-> Null]

\* const summarySignals = {...}
SummarySignals(pg, m, hdrs) ==
    [present |-> TRUE,
     seoScore |-> Num(Max2(0, Min2(N(100),
                    N((IF pg.title THEN 20 ELSE 0) + (IF pg.description THEN 20 ELSE 0)
                      + (IF pg.h1 THEN 20 ELSE 0) + (IF pg.keywords > 0 THEN 20 ELSE 0)
                      + (IF pg.sitemap.found THEN 20 ELSE 0))))),
     accessibilityScore |-> Num(Max2(0, N(100 - (IF pg.unlabeledButtons THEN 25 ELSE 0)
                                              - (IF pg.linksWithoutText THEN 25 ELSE 0)
                                              - (IF pg.noAria THEN 20 ELSE 0)))),
     securityScore |-> Num(N((IF hdrs /\ pg.hasCSP THEN 33 ELSE 0)
                             + (IF hdrs /\ pg.hasHSTS THEN 33 ELSE 0)
                             + (IF hdrs /\ pg.hasXFrame THEN 34 ELSE 0))),
     performanceEstimate |->
         IF ~m.present THEN Null
         ELSE Num(Max2(0, N(100 - (IF m.totalJsKB.n > N(500) THEN 30 ELSE 0)
                                - (IF m.totalImageKB.n > N(2000) THEN 30 ELSE 0)
                                - (IF m.domNodes.k = "num" /\ m.domNodes.n > N(3000)
                                   THEN 20 ELSE 0))))]

\* seo.structuredDataTypes: b['@graph'].map(g => g['@type']) throws when
\* '@graph' is not an array or holds a null item
StructuredDataThrows(pg) == pg.jsonLd \in {"graphNotArray", "graphNullItem"}

\* const final = {...} as far as sanitizeAndImpute reads or writes it
Assemble(pg, fr, m, lhr) ==
    LET hdrs == HeadersAvailable(fr, m)
    IN [ summarySignals |-> SummarySignals(pg, m, hdrs),
         performance |-> lhr,
         htmlMetrics |-> [present |-> TRUE, title |-> pg.title, description |-> pg.description,
                          h1_present |-> pg.h1, images |-> Num(N(pg.images))],
         content |-> [present |-> TRUE, keywords |-> pg.keywords,
                      headers |-> IF pg.h1 THEN 3 ELSE 0],
         siteSignals |-> [present |-> TRUE, hasSitemap |-> pg.sitemap.found],
         security |-> [present |-> TRUE, hasCSP |-> hdrs /\ pg.hasCSP,
                       hasHSTS |-> hdrs /\ pg.hasHSTS, hasXFrame |-> hdrs /\ pg.hasXFrame],
         resources |-> ResourceSummary(m),
         trafficEstimate |-> NoTraffic,
         businessInsights |-> [present |-> TRUE,
                               businessModel |-> detectBusinessModel(pg),
                               pricing |-> [present |-> TRUE,
                                            isSubscription |-> IF pg.isSubscription THEN "true" ELSE "false",
                                            hasTransparentPricing |-> pg.hasTransparentPricing],
                               marginEstimate |->
                                   estimateMargin(detectBusinessModel(pg).inferredModel,
                                                  detectTech(pg), ResourceSummary(m)),
                               trafficEstimate |-> estimateTrafficClass(pg, m)],
         hosting |-> [present |-> TRUE, vercel |-> hdrs /\ pg.vercel,
                      cloudflare |-> hdrs /\ pg.cloudflare],
         conversionSignals |-> [present |-> TRUE, hasCheckout |-> pg.hasCart],
         canonical |-> pg.canonical,
         metadata |-> [present |-> TRUE, title |-> pg.metaTitle],
         openGraph |-> [present |-> TRUE, ogTitle |-> pg.ogTitle],
         imputed |-> NoImputed,
         imputationLog |-> <<>> ]

\* ------------------------------- state ---------------------------------
VARIABLES
    sdoc,      \* the document handed to sanitizeAndImpute, mutated in place
    sprev,     \* the document as it was before the latest call
    sthrew,    \* the latest call threw instead of returning
    passes,    \* number of sanitizeAndImpute calls made on sdoc
    pc,        \* position of the analyzeWebsite call
    opts,      \* options: [collectResources, runLighthouse]
    urlOK,     \* normalizedUrl parses as a URL
    fetchRes,  \* what safeFetch resolved to
    html,      \* the html variable: [src, size]
    browser,   \* the puppeteer browser: "none", "open", "closed"
    renderErr, \* the error gatherResourceMetrics rejected with, or "none"
    arrived,   \* number of response events fired so far
    buffering, \* response callbacks awaiting res.buffer()
    resources, \* the shared resources array
    domNodes,  \* result of page.evaluate
    rendered,  \* size of the html page.content() returned
    navigation,\* how await page.goto settled: "none", "loaded", "timeout"
    metrics,   \* resourceMetrics
    page,      \* what the extractors found in the html and on the site
    lh,        \* lighthouseResult
    final,     \* the assembled document `final`
    fnIn,      \* the arguments of a call of one of the pure functions
    fnOut      \* what that call returned

sanVars == <<sdoc, sprev, sthrew, passes>>

renderVars == <<browser, renderErr, arrived, buffering, resources, domNodes, rendered, metrics,
                navigation>>

anVars == <<pc, opts, urlOK, fetchRes, html, renderVars, page, lh, final>>

fnVars == <<fnIn, fnOut>>

vars == <<sanVars, anVars, fnVars>>

NoCall == [fn |-> "none"]

NoResult == [present |-> FALSE]

\* no pure-function call is being followed
FnIdle ==
    /\ fnIn = NoCall
    /\ fnOut = NoResult

NoFetch == [got |-> FALSE, ok |-> FALSE, text |-> "none"]

\* fetchRes while the await of safeFetch has not resolved
FetchPending == [got |-> FALSE, ok |-> FALSE, text |-> "pending"]

NoHtml == [src |-> "none", size |-> "none"]

\* the state of the analysis variables before a call starts
AnIdle ==
    /\ pc = "idle"
    /\ opts = [collectResources |-> TRUE, runLighthouse |-> TRUE]
    /\ urlOK = TRUE
    /\ fetchRes = NoFetch
    /\ html = NoHtml
    /\ browser = "none"
    /\ renderErr = "none"
    /\ arrived = 0
    /\ buffering = <<>>
    /\ resources = <<>>
    /\ domNodes = Null
    /\ rendered = "none"
    /\ navigation = "none"
    /\ metrics = NoMetrics
    /\ page = BasePage
    /\ lh = NoLighthouse
    /\ final = BaseDoc

SanInit ==
    /\ sdoc \in InputDocs
    /\ sprev = sdoc
    /\ sthrew = FALSE
    /\ passes = 0
    /\ AnIdle
    /\ FnIdle

\* one call sanitizeAndImpute(sdoc)
Sanitize ==
    /\ passes < MaxPasses
    /\ ~sthrew
    /\ LET st == sanitizeAndImpute(sdoc)
       IN /\ sdoc' = st.d
          /\ sthrew' = st.threw
    /\ sprev' = sdoc
    /\ passes' = passes + 1
    /\ UNCHANGED <<anVars, fnVars>>

SanNext == Sanitize

SpecSan == SanInit /\ [][SanNext]_vars

\* ---------------------------- analyzeWebsite ----------------------------
OptionSets == [collectResources : BOOLEAN, runLighthouse : BOOLEAN]

AnInit ==
    /\ pc = "fetch"
    /\ opts \in OptionSets
    /\ urlOK \in BOOLEAN
    /\ fetchRes = FetchPending
    /\ html = NoHtml
    /\ browser = "none"
    /\ renderErr = "none"
    /\ arrived = 0
    /\ buffering = <<>>
    /\ resources = <<>>
    /\ domNodes = Null
    /\ rendered = "none"
    /\ navigation = "none"
    /\ metrics = NoMetrics
    /\ page = BasePage
    /\ lh = NoLighthouse
    /\ final = BaseDoc
    /\ sdoc = BaseDoc
    /\ sprev = BaseDoc
    /\ sthrew = FALSE
    /\ passes = 0
    /\ FnIdle

\* html is missing or tiny: !html || html.length < 1000
Unusable(h) == h.size \in {"none", "tiny"}

\* 1) const fetchRes = await safeFetch(normalizedUrl, 15000); safeFetch
\* resolves to null on any thrown error or abort, else to the response with
\* its text whatever the status; html = fetchRes?.text || null.  Then the
\* test of line 832 decides whether the browser render runs.
SafeFetch ==
    /\ pc = "fetch"
    /\ \E res \in {NoFetch} \cup [got : {TRUE}, ok : BOOLEAN, text : {"none", "tiny", "full"}] :
          /\ (~urlOK => res = NoFetch)
          /\ fetchRes' = res
          /\ html' = IF res.text = "none" THEN NoHtml ELSE [src |-> "fetch", size |-> res.text]
          /\ pc' = IF res.text \in {"none", "tiny"} \/ opts.collectResources
                   THEN "launch" ELSE "check"
    /\ UNCHANGED <<opts, urlOK, renderVars, page, lh, final, sanVars, fnVars>>

\* the locals of gatherResourceMetrics go out of scope when it settles
LocalsDropped ==
    /\ arrived' = 0
    /\ buffering' = <<>>
    /\ resources' = <<>>
    /\ domNodes' = Null
    /\ rendered' = "none"

\* gatherResourceMetrics rejects with error e; analyzeWebsite's catch keeps
\* resourceMetrics null and goes on to the html test
GatherRejects(e) ==
    /\ renderErr' = e
    /\ pc' = "check"
    /\ LocalsDropped

Launch_BeforeFetchResolves ==
    /\ pc \in {"fetch", "launch"}
    /\ \/ /\ browser' = "open"
          /\ pc' = "newPage"
          /\ UNCHANGED <<renderErr, arrived, buffering, resources, domNodes, rendered>>
       \/ /\ GatherRejects("launch")
          /\ UNCHANGED browser
    /\ UNCHANGED <<opts, urlOK, fetchRes, html, metrics, page, lh, final, navigation,
                   sanVars, fnVars>>

\* const browser = await puppeteer.launch(...)
Launch ==
    /\ pc = "launch"
    /\ \/ /\ browser' = "open"
          /\ pc' = "newPage"
          /\ UNCHANGED <<renderErr, arrived, buffering, resources, domNodes, rendered>>
       \/ /\ GatherRejects("launch")
          /\ UNCHANGED browser
    /\ UNCHANGED <<opts, urlOK, fetchRes, html, metrics, page, lh, final, navigation,
                   sanVars, fnVars>>

\* const page = await browser.newPage(); new URL(url) (throws on an invalid
\* url); page.on('response', ...); page.goto(...) starts
NewPage ==
    /\ pc = "newPage"
    /\ \/ GatherRejects("newPage")
       \/ ~urlOK /\ GatherRejects("url")
       \/ /\ urlOK
          /\ pc' = "goto"
          /\ UNCHANGED <<renderErr, arrived, buffering, resources, domNodes, rendered>>
    /\ UNCHANGED <<opts, urlOK, fetchRes, html, browser, metrics, page, lh, final, navigation,
                   sanVars, fnVars>>

\* the listener is registered and the browser is open: response events
\* fire and res.buffer() promises settle at any await from here on
Rendering == pc \in {"goto", "content", "evaluate", "derive", "closing"}

\* a 'response' event: the callback returns at once for a non-http(s) url,
\* else it starts awaiting res.buffer()
ResponseArrives ==
    /\ Rendering
    /\ arrived < MaxResponses
    /\ arrived' = arrived + 1
    /\ \E kind \in ResponseKinds :
          buffering' = IF kind.http THEN Append(buffering, kind) ELSE buffering
    /\ UNCHANGED <<pc, opts, urlOK, fetchRes, html, browser, renderErr, resources, domNodes,
                   rendered, metrics, page, lh, final, navigation,
                   sanVars, fnVars>>

\* res.buffer() settles for one callback: size = buf.length, or null when
\* it rejected; the callback then pushes onto resources
BufferSettles ==
    /\ Rendering
    /\ \E i \in 1..Len(buffering) :
          /\ resources' = Append(resources, Pushed(buffering[i], buffering[i].readable))
          /\ buffering' = Remove(buffering, i)
    /\ UNCHANGED <<pc, opts, urlOK, fetchRes, html, browser, renderErr, arrived, domNodes,
                   rendered, metrics, page, lh, final, navigation,
                   sanVars, fnVars>>

GotoSettles_TimeoutRejects ==
    /\ pc = "goto"
    /\ \/ /\ navigation' = "loaded"
          /\ pc' = "content"
          /\ UNCHANGED <<renderErr, arrived, buffering, resources, domNodes, rendered>>
       \/ /\ navigation' = "timeout"
          /\ GatherRejects("goto")
    /\ UNCHANGED <<opts, urlOK, fetchRes, html, browser, metrics, page, lh, final, sanVars, fnVars>>

\* await page.goto(url, {waitUntil: 'networkidle2', timeout}) settles: it
\* resolves while connections may still be open, or it rejects on the
\* timeout and the catch of lines 78-80 lets the function go on
GotoSettles ==
    /\ pc = "goto"
    /\ navigation' \in {"loaded", "timeout"}
    /\ pc' = "content"
    /\ UNCHANGED <<opts, urlOK, fetchRes, html, browser, renderErr, arrived, buffering,
                   resources, domNodes, rendered, metrics, page, lh, final, sanVars, fnVars>>

\* const html = await page.content(): the serialized DOM (never empty, but
\* tiny for a page that did not load), or a rejection that escapes
PageContent ==
    /\ pc = "content"
    /\ \/ /\ \E size \in {"tiny", "full"} : rendered' = size
          /\ pc' = "evaluate"
          /\ UNCHANGED <<renderErr, arrived, buffering, resources, domNodes>>
       \/ GatherRejects("content")
    /\ UNCHANGED <<opts, urlOK, fetchRes, html, browser, metrics, page, lh, final, navigation,
                   sanVars, fnVars>>

DomNodeVals == {Null, Num(N(5000))}

\* domNodes = await page.evaluate(...), null when it throws
PageEvaluate ==
    /\ pc = "evaluate"
    /\ domNodes' \in DomNodeVals
    /\ pc' = "derive"
    /\ UNCHANGED <<opts, urlOK, fetchRes, html, browser, renderErr, arrived, buffering,
                   resources, rendered, metrics, page, lh, final, navigation,
                   sanVars, fnVars>>

\* the filters and reductions of lines 92-106 run on resources as it is
\* now, in one synchronous stretch; browser.close() is then awaited.
\* resourcesCount and the sample are read later, in the return statement.
DeriveFromResources ==
    /\ pc = "derive"
    /\ metrics' = DeriveMetrics(resources, domNodes)
    /\ pc' = "closing"
    /\ UNCHANGED <<opts, urlOK, fetchRes, html, browser, renderErr, arrived, buffering,
                   resources, domNodes, rendered, page, lh, final, navigation,
                   sanVars, fnVars>>

\* await browser.close() resolves and the metrics are returned, with
\* resources.length and resources.slice(0, 50) read at that moment;
\* analyzeWebsite takes the rendered html when its own is missing or tiny
CloseAndReturn ==
    /\ pc = "closing"
    /\ browser' = "closed"
    /\ metrics' = [metrics EXCEPT !.resourcesCount = Len(resources),
                                  !.sample = Min2(Len(resources), 50)]
    /\ html' = IF Unusable(html) THEN [src |-> "render", size |-> rendered] ELSE html
    /\ pc' = "check"
    /\ LocalsDropped
    /\ UNCHANGED <<opts, urlOK, fetchRes, renderErr, page, lh, final, navigation,
                   sanVars, fnVars>>

\* if (!html) throw new Error(`Unable to retrieve HTML for ...`)
CheckHtml ==
    /\ pc = "check"
    /\ pc' = IF html.size = "none" THEN "thrown" ELSE "extract"
    /\ UNCHANGED <<opts, urlOK, fetchRes, html, renderVars, page, lh, final, sanVars, fnVars>>

\* cheerio.load(html) and every extractor up to detectBusinessInsights,
\* including the sitemap and robots probes: each recovers from its own
\* failures, so the step always completes with some findings
Extract ==
    /\ pc = "extract"
    /\ page' \in Pages
    /\ pc' = "lighthouse"
    /\ UNCHANGED <<opts, urlOK, fetchRes, html, renderVars, lh, final, sanVars, fnVars>>

\* options.runLighthouse ? await runLighthouse(normalizedUrl) : null
Lighthouse ==
    /\ pc = "lighthouse"
    /\ lh' \in (IF opts.runLighthouse THEN LighthouseResults ELSE {NoLighthouse})
    /\ pc' = "assemble"
    /\ UNCHANGED <<opts, urlOK, fetchRes, html, renderVars, page, final, sanVars, fnVars>>

\* const final = {...}; sanitizeAndImpute(final); return final
AssembleAndSanitize ==
    /\ pc = "assemble"
    /\ IF StructuredDataThrows(page)
       THEN pc' = "thrown" /\ UNCHANGED final
       ELSE LET st == sanitizeAndImpute(Assemble(page, fetchRes, metrics, lh))
            IN /\ final' = st.d
               /\ pc' = IF st.threw THEN "thrown" ELSE "returned"
    /\ UNCHANGED <<opts, urlOK, fetchRes, html, renderVars, page, lh, sanVars, fnVars>>

AnNext ==
    \/ SafeFetch
    \/ Launch
    \/ NewPage
    \/ ResponseArrives
    \/ BufferSettles
    \/ GotoSettles
    \/ PageContent
    \/ PageEvaluate
    \/ DeriveFromResources
    \/ CloseAndReturn
    \/ CheckHtml
    \/ Extract
    \/ Lighthouse
    \/ AssembleAndSanitize

Spec == AnInit /\ [][AnNext]_vars

\* The steps whose completion the code itself ensures: safeFetch aborts
\* after its timeout (lines 26-27), page.goto is given a timeout (line 77),
\* the sitemap and robots probes of the extraction go through safeFetch,
\* and deriving the metrics and testing html are synchronous.  The other awaits
\* (puppeteer.launch, newPage, page.content, page.evaluate, browser.close,
\* the Lighthouse run) are passed no timeout and settle when the browser
\* answers.
\* At most one of them is enabled at any position of the call.
BoundedStep ==
    \/ SafeFetch
    \/ GotoSettles
    \/ DeriveFromResources
    \/ CheckHtml
    \/ Extract

\* building `final` and sanitizeAndImpute(final) are one synchronous
\* stretch: the call does not stay in front of it
AssemblyRuns == []<>(pc # "assemble")

\* a call with the default options on a well-formed url
AnInitDefault ==
    /\ AnInit
    /\ opts = [collectResources |-> TRUE, runLighthouse |-> TRUE]
    /\ urlOK

SpecLive == AnInitDefault /\ [][AnNext]_vars /\ WF_vars(BoundedStep) /\ AssemblyRuns

\* ------------------------ calls of pure functions ------------------------
\* estimateTrafficClass(sitemapInfo, resourceSummary, $): page counts and
\* link counts on both sides of each threshold, with and without a
\* resource summary
TrafficCalls ==
    {[fn |-> "estimateTrafficClass",
      pg |-> [BasePage EXCEPT !.sitemap = [found |-> n > 0, pages |-> n], !.blogLinks = b],
      m |-> m] :
        n \in {0, 50, 200, 201, 1000, 1001, 1500},
        b \in {0, 20, 21, 25, 100, 101},
        m \in {NoMetrics} \cup {[NoMetrics EXCEPT !.present = TRUE, !.resourcesCount = r] :
                                    r \in {0, 1000, 1001}}}

Categories == {Ordering[i] : i \in 1..Len(Ordering)}

\* detectBusinessModel(...): every combination of truthy scores
ModelCalls ==
    {[fn |-> "detectBusinessModel", pg |-> [BasePage EXCEPT !.signals = g], m |-> NoMetrics] :
        g \in SUBSET Categories}

\* a line of the text after trim(): empty, starting with one of the section
\* headings, starting with "- ", or anything else
LineKinds == {"blank", "heading", "bullet", "paragraph"}

Range(seq) == {seq[i] : i \in 1..Len(seq)}

\* html += `<div class="section">${currentSection}</div>` when
\* currentSection is not the empty string
CloseSection(out, currentSection) ==
    IF currentSection # <<>> THEN out \o <<"<div>">> \o currentSection \o <<"</div>">>
    ELSE out

\* one turn of the loop over the lines; the markup is kept as the sequence
\* of its tags, and currentSection.includes("<ul>") is whether the section
\* built so far holds that tag
TextLine(acc, line) ==
    CASE line = "blank" -> acc
      [] line = "heading" ->
            [html |-> CloseSection(acc.html, acc.currentSection), currentSection |-> <<"<h2>">>]
      [] line = "bullet" ->
            [acc EXCEPT !.currentSection =
                (IF "<ul>" \notin Range(@) THEN @ \o <<"<ul>">> ELSE @) \o <<"<li>">>]
      [] line = "paragraph" ->
            [acc EXCEPT !.currentSection =
                (IF "<ul>" \in Range(@) THEN @ \o <<"</ul>">> ELSE @) \o <<"<p>">>]

RECURSIVE TextLines(_, _)
TextLines(acc, lines) ==
    IF lines = <<>> THEN acc ELSE TextLines(TextLine(acc, Head(lines)), Tail(lines))

\* textToHTML(text): the tags of the html it returns
textToHTML(lines) ==
    LET acc == TextLines([html |-> <<>>, currentSection |-> <<>>], lines)
    IN [present |-> TRUE, html |-> CloseSection(acc.html, acc.currentSection)]

\* textToHTML(text): every text of up to MaxLines lines
HtmlCalls ==
    {[fn |-> "textToHTML", lines |-> l] :
        l \in UNION {[1..n -> LineKinds] : n \in 0..MaxLines}}

FnInit ==
    /\ fnIn \in TrafficCalls \cup ModelCalls \cup HtmlCalls
    /\ fnOut = NoResult
    /\ AnIdle
    /\ sdoc = BaseDoc
    /\ sprev = BaseDoc
    /\ sthrew = FALSE
    /\ passes = 0

CallEstimateTrafficClass ==
    /\ fnIn.fn = "estimateTrafficClass"
    /\ fnOut = NoResult
    /\ fnOut' = estimateTrafficClass(fnIn.pg, fnIn.m)
    /\ UNCHANGED <<fnIn, anVars, sanVars>>

CallDetectBusinessModel ==
    /\ fnIn.fn = "detectBusinessModel"
    /\ fnOut = NoResult
    /\ fnOut' = detectBusinessModel(fnIn.pg)
    /\ UNCHANGED <<fnIn, anVars, sanVars>>

CallTextToHTML ==
    /\ fnIn.fn = "textToHTML"
    /\ fnOut = NoResult
    /\ fnOut' = textToHTML(fnIn.lines)
    /\ UNCHANGED <<fnIn, anVars, sanVars>>

FnNext ==
    \/ CallEstimateTrafficClass
    \/ CallDetectBusinessModel
    \/ CallTextToHTML

SpecFn == FnInit /\ [][FnNext]_vars

\* ------------------- properties of sanitizeAndImpute -------------------
Returned == passes >= 1 /\ ~sthrew

\* a score as the data model allows it: null, or a number within [0,100]
ScoreOK(v) == v.k = "null" \/ (v.k = "num" /\ v.n >= 0 /\ v.n <= N(100))

NewEntries == SubSeq(sdoc.imputationLog, Len(sprev.imputationLog) + 1, Len(sdoc.imputationLog))

LoggedFor(field) == \E i \in 1..Len(NewEntries) : NewEntries[i].f = field

\* C1: after sanitizeAndImpute on a document that has summarySignals, each
\* of seoScore, accessibilityScore, securityScore and performanceEstimate
\* is null or a number within [0,100], never NaN and never out of range.
C1_ScoresNullOrInRange ==
    (Returned /\ sdoc.summarySignals.present) =>
        \A i \in 1..Len(ScoreNames) : ScoreOK(sdoc.summarySignals[ScoreNames[i]])

\* C2: a second sanitizeAndImpute pass leaves summarySignals, resources,
\* _imputed and imputationLog as the first pass left them.
C2_SecondPassIsIdentity ==
    (Returned /\ passes = 2) =>
        /\ sdoc.summarySignals = sprev.summarySignals
        /\ sdoc.resources = sprev.resources
        /\ sdoc.imputed = sprev.imputed
        /\ sdoc.imputationLog = sprev.imputationLog

BothAccNumbers ==
    /\ passes >= 1
    /\ sprev.summarySignals.present
    /\ isNumber(sprev.summarySignals.accessibilityScore)
    /\ isNumber(LhAcc(sprev))

AccSum == sprev.summarySignals.accessibilityScore.n + LhAcc(sprev).n

AccDiff == Abs(sprev.summarySignals.accessibilityScore.n - LhAcc(sprev).n)

BlendRecorded ==
    /\ sdoc.imputed["accessibilityScore"].set
    /\ sdoc.imputed["accessibilityScore"].method = "blend heuristic avg due to diff"
    /\ sdoc.imputed["accessibilityScore"].c = Num(AccDiff)

\* C3 as stated: when the external and the static accessibility score are
\* both numbers the sanitized accessibilityScore is exactly their average,
\* and a difference above 20 is recorded in _imputed.accessibilityScore.
C3_ExactAverage ==
    BothAccNumbers =>
        /\ 2 * sdoc.summarySignals.accessibilityScore.n = AccSum
        /\ (AccDiff > N(20) => BlendRecorded)

\* twice the value of x limited to [0,100], x given as twice its value
Limited2(x2) == IF x2 < 0 THEN 0 ELSE IF x2 > 2 * N(100) THEN 2 * N(100) ELSE x2

\* the integer nearest to s/2 (s in units of 1/Scale), halves upwards
NearestToHalf(s) ==
    CHOOSE r \in {k * Scale : k \in -400..400} : 2 * r - Scale <= s /\ s < 2 * r + Scale

\* C3 amended: when both scores are (finite) numbers the sanitized
\* accessibilityScore is their average limited to [0,100]; when they differ
\* by more than 20 the average is first rounded to the nearest integer and
\* the blend is recorded in _imputed.accessibilityScore with the difference.
C3_AverageRoundedWhenFar ==
    BothAccNumbers =>
        /\ sdoc.summarySignals.accessibilityScore.k = "num"
        /\ IF AccDiff > N(20)
           THEN /\ 2 * sdoc.summarySignals.accessibilityScore.n = Limited2(2 * NearestToHalf(AccSum))
                /\ BlendRecorded
           ELSE 2 * sdoc.summarySignals.accessibilityScore.n = Limited2(AccSum)

\* C3 witness: 100 and 75 differ by 25 and are blended to 88, not 87.5
C3_Witness ==
    /\ BothAccNumbers
    /\ sprev.summarySignals.accessibilityScore = Num(N(100))
    /\ LhAcc(sprev) = Num(N(75))
    /\ sdoc.summarySignals.accessibilityScore = Num(N(88))
    /\ BlendRecorded

ValueFields ==
    {<<"summarySignals", ScoreNames[i]>> : i \in 1..Len(ScoreNames)}
    \cup {<<"resources", "totalImageKB">>, <<"resources", "totalJsKB">>,
          <<"resources", "domNodes">>, <<"resources", "resourcesCount">>}

\* C9: every change sanitizeAndImpute makes to a score, a resource total,
\* the traffic class or the inferred business model comes with a new
\* imputationLog entry for that field.
C9_EveryChangeLogged ==
    Returned =>
        /\ \A fld \in ValueFields :
              sdoc[fld[1]][fld[2]] # sprev[fld[1]][fld[2]] => LoggedFor(fld[2])
        /\ sdoc.trafficEstimate.estimatedTrafficClass # sprev.trafficEstimate.estimatedTrafficClass
              => LoggedFor("trafficEstimate")
        /\ sdoc.businessInsights.businessModel # sprev.businessInsights.businessModel
              => LoggedFor("businessModel")

\* C10: sanitizeAndImpute never throws, whatever the document holds.
C10_NeverThrows == ~sthrew

\* the number of entries the latest pass appended for field f with sentence m
NewCount(f, m) ==
    Cardinality({i \in 1..Len(NewEntries) : NewEntries[i].f = f /\ NewEntries[i].m = m})

\* the three watched fields of the claim and whether the document d has each
CanonicalFields(d) ==
    [ f \in {"canonical", "metadata.title", "openGraph.ogTitle"} |->
        CASE f = "canonical" -> d.canonical
          [] f = "metadata.title" -> d.metadata.present /\ d.metadata.title
          [] f = "openGraph.ogTitle" -> d.openGraph.present /\ d.openGraph.ogTitle ]

\* C14: for each of canonical URL, metadata title and Open-Graph title, a
\* sanitizeAndImpute pass appends exactly one 'Missing: <field> not found'
\* entry naming that field when the field is absent and none when it is
\* present, whatever the other fields are.
C14_OneMissingEntryPerAbsentField ==
    Returned =>
        \A f \in DOMAIN CanonicalFields(sprev) :
            NewCount(f, "Missing: not found on page")
                = (IF CanonicalFields(sprev)[f] THEN 0 ELSE 1)

C14_Witness ==
    /\ Returned
    /\ ~sprev.canonical
    /\ sprev.metadata.present /\ sprev.metadata.title
    /\ ~sprev.openGraph.present
    /\ NewCount("canonical", "Missing: not found on page") = 1
    /\ NewCount("metadata.title", "Missing: not found on page") = 0
    /\ NewCount("openGraph.ogTitle", "Missing: not found on page") = 1

\* the document has a resources record without totalImageKB and an image
\* count that is a number
ImageKBAbsentWithCount(d) ==
    /\ d.resources.present
    /\ IsNullish(d.resources.totalImageKB)
    /\ d.htmlMetrics.present
    /\ isNumber(d.htmlMetrics.images)

\* C15: when resources.totalImageKB is absent and htmlMetrics.images is a
\* count n, sanitizeAndImpute sets resources.totalImageKB to n * 120,
\* marks _imputed.totalImageKB as estimated with the images-times-120KB
\* formula, and appends a log entry stating that formula.
C15_ImageKBBackfilled ==
    (Returned /\ ImageKBAbsentWithCount(sprev)) =>
        LET n == sprev.htmlMetrics.images
        IN /\ sdoc.resources.totalImageKB = Num(120 * n.n)
           /\ sdoc.imputed.totalImageKB.set
           /\ sdoc.imputed.totalImageKB.estimated
           /\ sdoc.imputed.totalImageKB.method = "images_count * 120KB"
           /\ sdoc.imputed.totalImageKB.a = n
           /\ \E i \in 1..Len(NewEntries) :
                 /\ NewEntries[i].f = "totalImageKB"
                 /\ NewEntries[i].m = "missing -> estimated from img(s) * 120KB"
                 /\ NewEntries[i].a = Num(120 * n.n)
                 /\ NewEntries[i].b = n

C15_Witness ==
    /\ Returned
    /\ ImageKBAbsentWithCount(sprev)
    /\ sprev.htmlMetrics.images = Num(N(10))
    /\ sdoc.resources.totalImageKB = Num(N(1200))

\* the fallback of step 4 applies to d and both counts are numbers
TrafficRederived(d) ==
    /\ d.trafficEstimate.present
    /\ d.trafficEstimate.estimatedTrafficClass = Unknown
    /\ d.trafficEstimate.indicators.present
    /\ isNumber(d.trafficEstimate.indicators.pagesIndexed)
    /\ isNumber(d.trafficEstimate.indicators.blogPostsEstimate)

\* the band of the estimateTrafficClass threshold table for p pages and b
\* blog links
TableBand(p, b) ==
    IF p > N(1000) \/ b > N(100) THEN High
    ELSE IF p > N(200) \/ b > N(20) THEN Mid
    ELSE Small

\* C21: when the class is 'Unknown', the band sanitizeAndImpute re-derives
\* from the page count and the blog-link count is the band of the
\* estimateTrafficClass threshold table for the same pair, the boundary
\* values 1000, 200 and 20 included.
C21_RederivedBandMatchesTable ==
    (Returned /\ passes = 1 /\ TrafficRederived(sprev)) =>
        LET p == sprev.trafficEstimate.indicators.pagesIndexed.n
            b == sprev.trafficEstimate.indicators.blogPostsEstimate.n
        IN (p > 0 \/ b > 0) /\ sprev.content.headers <= 200
              => sdoc.trafficEstimate.estimatedTrafficClass = TableBand(p, b)

\* the model of d is the literal 'unknown'
ModelUnknown(d) ==
    /\ d.businessInsights.present
    /\ d.businessInsights.businessModel.present
    /\ d.businessInsights.businessModel.inferredModel = "unknown"

\* the secondary signals the specification lists: a checkout, the pricing
\* subscription flag, a hosting-provider hint
ListedSignal(d) ==
    \/ d.conversionSignals.present /\ d.conversionSignals.hasCheckout
    \/ d.businessInsights.pricing.present /\ d.businessInsights.pricing.isSubscription = "true"
    \/ d.hosting.present /\ d.hosting.vercel

\* ... and the one the code reads besides: transparent pricing on a page
\* whose subscription flag is false
DecisiveSignal(d) ==
    \/ ListedSignal(d)
    \/ /\ d.businessInsights.pricing.present
       /\ d.businessInsights.pricing.isSubscription = "false"
       /\ d.businessInsights.pricing.hasTransparentPricing

\* what the claim says of a document without decisive signal, and of a
\* document whose model is known, given what counts as decisive
FallbackFrame(decisive) ==
    /\ (ModelUnknown(sprev) /\ ~decisive) =>
          /\ sdoc.businessInsights.businessModel.inferredModel = "unknown"
          /\ sdoc.imputed.businessModel.set
          /\ ~sdoc.imputed.businessModel.estimated
          /\ sdoc.imputed.businessModel.method = "no decisive conversion/tech signal"
          /\ NewCount("businessModel", "could not be determined") = 1
    /\ (ModelUnknown(sprev) /\ decisive) =>
          /\ sdoc.businessInsights.businessModel.inferredModel \in {"saas", "ecommerce"}
          /\ sdoc.imputed.businessModel.estimated
    /\ (sprev.businessInsights.present /\ sprev.businessInsights.businessModel.present
          /\ sprev.businessInsights.businessModel.inferredModel \notin {"unknown", ""}) =>
          sdoc.businessInsights.businessModel = sprev.businessInsights.businessModel

\* C22 as stated: an 'unknown' model is overwritten only when a checkout,
\* a set subscription flag or a hosting hint is present; otherwise it stays
\* 'unknown', is flagged {estimated: false, reason} and the failure is
\* logged; a model other than 'unknown' is never changed.
C22_OverwriteOnlyOnListedSignals ==
    Returned => FallbackFrame(ListedSignal(sprev))

\* C22 amended: the same, the decisive signals being a checkout, a set
\* subscription flag, a hosting hint, or transparent pricing together with
\* a subscription flag that is false.
C22_OverwriteOnlyOnDecisiveSignals ==
    Returned => FallbackFrame(DecisiveSignal(sprev))

C22_Witness ==
    /\ Returned
    /\ ModelUnknown(sprev)
    /\ ~ListedSignal(sprev) /\ DecisiveSignal(sprev)
    /\ sdoc.businessInsights.businessModel.inferredModel = "ecommerce"

\* C23: when only one of the Lighthouse and the static accessibility score
\* is a valid number, the sanitized accessibilityScore is that one (limited
\* to [0,100]); when neither is, it is 50 and _imputed.accessibilityScore
\* is flagged as estimated.
C23_AdoptTheValidOneElse50 ==
    (Returned /\ passes = 1 /\ sprev.summarySignals.present) =>
        LET lhAcc == LhAcc(sprev)
            acc == sprev.summarySignals.accessibilityScore
            out == sdoc.summarySignals.accessibilityScore
        IN /\ (isNumber(lhAcc) /\ ~isNumber(acc)) => out = clamp(lhAcc)
           /\ (~isNumber(lhAcc) /\ isNumber(acc)) => out = clamp(acc)
           /\ (~isNumber(lhAcc) /\ ~isNumber(acc)) =>
                 /\ out = Num(N(50))
                 /\ sdoc.imputed.accessibilityScore.estimated

\* the stored seoScore of d is missing, NaN, non-numeric or outside [0,100]
SeoInvalid(d) ==
    LET seo == d.summarySignals.seoScore
    IN seo.k # "num" \/ seo.n < 0 \/ seo.n > N(100)

\* the checklist items d has
SeoItems(d) ==
    {i \in {"title", "description", "keywords", "sitemap", "h1"} :
        CASE i = "title" -> d.htmlMetrics.present /\ d.htmlMetrics.title
          [] i = "description" -> d.htmlMetrics.present /\ d.htmlMetrics.description
          [] i = "keywords" -> d.content.present /\ d.content.keywords > 0
          [] i = "sitemap" -> d.siteSignals.present /\ d.siteSignals.hasSitemap
          [] i = "h1" -> d.htmlMetrics.present /\ d.htmlMetrics.h1_present}

\* C24: seoScore is recomputed, as 20 points for each of title,
\* description, non-empty keywords, sitemap and h1, exactly when the stored
\* value is missing, NaN, non-numeric or outside [0,100]; a valid stored
\* value is left unchanged.
C24_SeoRecomputedExactlyWhenInvalid ==
    (Returned /\ sprev.summarySignals.present) =>
        IF SeoInvalid(sprev)
        THEN /\ sdoc.summarySignals.seoScore = Num(N(20 * Cardinality(SeoItems(sprev))))
             /\ sdoc.imputed.seoScore.estimated
             /\ NewCount("seoScore", "missing/invalid -> estimated") = 1
        ELSE /\ sdoc.summarySignals.seoScore = sprev.summarySignals.seoScore
             /\ sdoc.imputed.seoScore = sprev.imputed.seoScore
             /\ NewCount("seoScore", "missing/invalid -> estimated") = 0

C24_Witness ==
    /\ Returned
    /\ sprev.summarySignals.seoScore = Num(N(150))
    /\ Cardinality(SeoItems(sprev)) = 3
    /\ sdoc.summarySignals.seoScore = Num(N(60))

\* the weight of a security header flag of d: 0 when the flag is not set
Weight(d, flag, points) == IF d.security.present /\ d.security[flag] THEN points ELSE 0

\* C25: when securityScore is not a number, sanitizeAndImpute sets it to
\* 33 for CSP plus 33 for HSTS plus 34 for X-Frame-Options and flags it as
\* imputed; a numeric securityScore is kept, limited to [0,100], and not
\* flagged.
C25_SecurityScoreFromHeaderFlags ==
    (Returned /\ sprev.summarySignals.present) =>
        LET sec == sprev.summarySignals.securityScore
        IN IF sec.k # "num"
           THEN /\ sdoc.summarySignals.securityScore
                     = Num(N(Weight(sprev, "hasCSP", 33) + Weight(sprev, "hasHSTS", 33)
                             + Weight(sprev, "hasXFrame", 34)))
                /\ sdoc.imputed.securityScore.estimated
                /\ NewCount("securityScore", "missing -> derived from flags") = 1
           ELSE /\ sdoc.summarySignals.securityScore = Num(Max2(0, Min2(N(100), sec.n)))
                /\ sdoc.imputed.securityScore = sprev.imputed.securityScore
                /\ NewCount("securityScore", "missing -> derived from flags") = 0

C25_Witness ==
    /\ Returned
    /\ sprev.summarySignals.securityScore = Null
    /\ sprev.security.present
    /\ sprev.security.hasCSP /\ ~sprev.security.hasHSTS /\ sprev.security.hasXFrame
    /\ sdoc.summarySignals.securityScore = Num(N(67))

\* the two resource totals sanitizeAndImpute can back-fill
ResourceTotals == {"totalImageKB", "totalJsKB"}

\* the counts of the resources record
ResourceCounts == {"domNodes", "resourcesCount", "thirdPartyRequests", "thirdPartyScripts"}

\* C28 as stated: the resource totals are written only when they are null
\* or absent, and the four counts keep their numeric values across a call.
C28_TotalsWrittenOnlyWhenNull ==
    (Returned /\ sprev.resources.present) =>
        /\ \A t \in ResourceTotals :
               sdoc.resources[t] # sprev.resources[t] => sprev.resources[t].k = "null"
        /\ \A c \in ResourceCounts :
               sprev.resources[c].k = "num" => sdoc.resources[c] = sprev.resources[c]

\* C28 as the code has it: no field of resources that holds a number is
\* changed by a call; a total is written when it is null (the back-fill) or
\* when it holds a non-null value that is not a number, which the numeric
\* tidy replaces by NaN.
C28_NumericResourcesKept ==
    (Returned /\ sprev.resources.present) =>
        /\ \A k \in ResourceTotals \cup ResourceCounts :
               sprev.resources[k].k = "num" => sdoc.resources[k] = sprev.resources[k]
        /\ \A t \in ResourceTotals :
               sdoc.resources[t] # sprev.resources[t] =>
                   \/ sprev.resources[t].k = "null"
                   \/ sprev.resources[t].k = "str" /\ sdoc.resources[t] = NaN

C28_Witness ==
    /\ Returned
    /\ sprev.resources.totalJsKB = Num(N(250))
    /\ sdoc.resources.totalJsKB = Num(N(250))
    /\ sprev.resources.resourcesCount = Num(N(12))
    /\ sprev.resources.totalImageKB = Null
    /\ sdoc.resources.totalImageKB.k = "num"

\* the sequence a is an initial part of the sequence b
IsPrefix(a, b) == Len(a) <= Len(b) /\ SubSeq(b, 1, Len(a)) = a

\* C29: sanitizeAndImpute only appends to imputationLog: over successive
\* calls on one document, the log before a call is a prefix of the log
\* after it, whether the call returned or threw.
C29_LogOnlyGrows ==
    passes >= 1 => IsPrefix(sprev.imputationLog, sdoc.imputationLog)

C29_Witness ==
    /\ passes = 2
    /\ ~sthrew
    /\ sprev.imputationLog # <<>>
    /\ Len(sdoc.imputationLog) > Len(sprev.imputationLog)
    /\ IsPrefix(sprev.imputationLog, sdoc.imputationLog)

\* ------------------- properties of analyzeWebsite (Spec) ------------------
\* the fetch gave no html the code counts as usable: it resolved to null,
\* or to an empty body, or to a body under 1000 characters
FetchGaveNoUsableHtml == ~fetchRes.got \/ fetchRes.text \in {"none", "tiny"}

\* the fetch failed in the spec's sense: as above, or a non-2xx status
FetchFailed == FetchGaveNoUsableHtml \/ ~fetchRes.ok

PastHtmlTest == pc \in {"extract", "lighthouse", "assemble", "returned"}

Settled == pc \in {"returned", "thrown"}

\* C4: when the fetch gave no usable html (null, no body, or a body under
\* 1000 characters) and gatherResourceMetrics threw, analyzeWebsite never
\* returns a result: the call ends by throwing.
C4_NoUsableHtmlNeverReturns ==
    (FetchGaveNoUsableHtml /\ renderErr # "none") => pc # "returned"

\* C5: whenever the fetch failed (null, non-2xx status, no body, or a body
\* under 1000 characters), the html that is analysed is the rendered one:
\* a failed fetch's body is never the analysed page.
C5_FailedFetchBodyNeverAnalysed ==
    (PastHtmlTest /\ FetchFailed) => html.src = "render"

\* C6: once html has been obtained, analyzeWebsite never throws: the only
\* throw is the one for missing html.
C6_ThrowsOnlyWithoutHtml ==
    pc = "thrown" => html.size = "none"

\* C7: when the analyzeWebsite call has returned or thrown, no browser it
\* launched is still open.
C7_BrowserClosedOnEveryExit ==
    Settled => browser # "open"

\* C8: when the totals have been computed from the resource list, every
\* http(s) response intercepted so far has been appended to it: no
\* callback is still waiting for res.buffer().
C8_EveryInterceptedResponseCounted ==
    pc = "closing" => buffering = <<>>

\* the imputationLog of the returned document holds the sentence m for field f
FinalLogHas(f, m) ==
    \E i \in 1..Len(final.imputationLog) :
        final.imputationLog[i].f = f /\ final.imputationLog[i].m = m

\* C11: when the page gives no traffic signal (no sitemap pages and no
\* blog links), estimateTrafficClass yields 'Unknown' and the document
\* analyzeWebsite returns has a 'could not be guessed' traffic entry in
\* its imputationLog.
C11_NoSignalUnknownAndLogged ==
    (pc = "returned" /\ page.sitemap.pages = 0 /\ page.blogLinks = 0) =>
        /\ estimateTrafficClass(page, metrics).estimatedTrafficClass = Unknown
        /\ FinalLogHas("trafficEstimate", "could not be guessed")

\* the page of the end-to-end fixture: all five checklist items, no
\* category signal, and none of the signals the secondary guess reads
FullChecklistNoSignals ==
    /\ page.title /\ page.description /\ page.h1
    /\ page.keywords > 0 /\ page.sitemap.found
    /\ page.signals = {}
    /\ ~page.hasCart /\ ~page.isSubscription /\ ~page.hasTransparentPricing
    /\ ~page.vercel

\* C16: for a page with a title, a meta description, an h1, a found
\* sitemap and keywords, and without category or secondary signals, the
\* document analyzeWebsite returns has seoScore 100 and inferredModel
\* 'unknown'.
C16_FixtureSeo100ModelUnknown ==
    (pc = "returned" /\ FullChecklistNoSignals) =>
        /\ final.summarySignals.seoScore = Num(N(100))
        /\ final.businessInsights.businessModel.inferredModel = "unknown"

C16_Witness ==
    /\ pc = "returned"
    /\ FullChecklistNoSignals
    /\ page.sitemap.pages = 3
    /\ page.jsonLd = "none"
    /\ final.summarySignals.seoScore = Num(N(100))
    /\ final.businessInsights.businessModel.inferredModel = "unknown"
    /\ FinalLogHas("businessModel", "could not be determined")

\* gatherResourceMetrics has started: a browser was launched or the launch
\* was rejected
RenderStarted == browser # "none" \/ renderErr # "none" \/ pc \in {"newPage", "goto"}

\* C17: within one analyzeWebsite call the render never starts before
\* safeFetch has resolved, to a response or to null.
C17_RenderAfterFetchResolved ==
    RenderStarted => fetchRes # FetchPending

C17_Witness ==
    /\ browser = "open"
    /\ pc = "goto"
    /\ fetchRes.got /\ fetchRes.text = "tiny"

\* C18: every analyzeWebsite call terminates, by returning or by throwing,
\* whatever the network and the browser do.
C18_EveryCallTerminates == <>Settled

\* gatherResourceMetrics has settled and analyzeWebsite has gone on
PastRender == pc \in {"check", "extract", "lighthouse", "assemble", "returned", "thrown"}

\* C19: when page.goto ran into its timeout, gatherResourceMetrics is not
\* failed by it: unless a later browser call fails, it closes the browser
\* and returns the page content and the metrics derived from the resources
\* captured so far, and analyzeWebsite analyses that content when the
\* fetch gave no usable html.
C19_NavigationTimeoutIsPartialSuccess ==
    navigation = "timeout" =>
        /\ renderErr \in {"none", "content"}
        /\ (PastRender /\ renderErr = "none") =>
              /\ metrics.present
              /\ browser = "closed"
              /\ FetchGaveNoUsableHtml => html.src = "render"
              /\ pc = "returned" => final.resources.present

C19_Witness ==
    /\ navigation = "timeout"
    /\ pc = "returned"
    /\ renderErr = "none"
    /\ html.src = "render"
    /\ metrics.present /\ metrics.resourcesCount > 0
    /\ final.resources.resourcesCount = Num(N(metrics.resourcesCount))

\* est = 100 - min(60, js/10) - min(30, img/100) - min(20, dom/200),
\* floored at 0, stated without division: all terms times 2000
IsDeductionRuleEstimate(est, js, img, dom) ==
    /\ est.k = "num"
    /\ 2000 * est.n = Max2(0, 2000 * N(100) - Min2(2000 * N(60), 200 * js)
                                           - Min2(2000 * N(30), 20 * img)
                                           - Min2(2000 * N(20), 10 * dom))

\* C20: in the document analyzeWebsite returns, performanceEstimate equals
\* the Lighthouse performanceScore whenever there is one; otherwise, when
\* resource metrics were collected, it equals 100 minus min(60, scriptKB/10)
\* minus min(30, imageKB/100) minus min(20, domNodes/200), floored at 0.
C20_PerformanceFromAuditElseDeductions ==
    pc = "returned" =>
        /\ lh.present => final.summarySignals.performanceEstimate = lh.performanceScore
        /\ (~lh.present /\ metrics.present) =>
              IsDeductionRuleEstimate(final.summarySignals.performanceEstimate,
                                      metrics.totalJsKB.n, metrics.totalImageKB.n,
                                      NumberOr0(metrics.domNodes).n)

\* the margin band the returned document reports
ReportedMargin == final.businessInsights.marginEstimate

\* the script payload the render measured is over 2000 KB
HeavyScripts == metrics.present /\ metrics.totalJsKB.k = "num" /\ metrics.totalJsKB.n > N(2000)

\* the sum of the adjustments for the signals present on the analysed site
SignalShift ==
    (IF page.shopify \/ page.wordpress THEN -10 ELSE 0)
    + (IF page.nextjs \/ page.react THEN 5 ELSE 0)
    + (IF HeavyScripts THEN -5 ELSE 0)
    + (IF final.hosting.cloudflare THEN 3 ELSE 0)

\* C26: the margin band analyzeWebsite reports is the base band of the
\* inferred model shifted by the adjustments for the signals present
\* (commerce platform -10, modern framework +5, script payload over 2000 KB
\* -5, CDN +3), limited to 0 <= low <= high <= 100, with the point estimate
\* the band's midpoint in whole percent.
C26_MarginBandShiftedBySignals ==
    pc = "returned" =>
        LET base == BaseBand(detectBusinessModel(page).inferredModel)
        IN /\ ReportedMargin.low = Max2(0, base.low + SignalShift)
           /\ ReportedMargin.high = Min2(100, base.high + SignalShift)
           /\ 0 <= ReportedMargin.low /\ ReportedMargin.low <= ReportedMargin.high
           /\ ReportedMargin.high <= 100
           /\ ReportedMargin.estimate = (ReportedMargin.low + ReportedMargin.high + 1) \div 2

\* C27: in the returned document the margin band is the one estimateMargin
\* gives for the final inferred model, also when sanitizeAndImpute replaced
\* an unknown model by its secondary guess.
C27_MarginMatchesFinalModel ==
    pc = "returned" =>
        ReportedMargin = estimateMargin(final.businessInsights.businessModel.inferredModel,
                                        detectTech(page), ResourceSummary(metrics))

\* ---------------- properties of the pure functions (SpecFn) ---------------
TrafficReturned == fnIn.fn = "estimateTrafficClass" /\ fnOut.present

CallPages == fnIn.pg.sitemap.pages

CallBlogLinks == fnIn.pg.blogLinks

HeavyFootprint == fnIn.m.present /\ fnIn.m.resourcesCount > 1000

\* C12 as stated: the class is High exactly when pages > 1000 or blog
\* links > 100, else Mid exactly when pages > 200 or blog links > 20, else
\* Small when some signal exists.
C12_BandsByPagesAndBlogLinksOnly ==
    TrafficReturned =>
        LET high == CallPages > 1000 \/ CallBlogLinks > 100
            mid == ~high /\ (CallPages > 200 \/ CallBlogLinks > 20)
        IN /\ (fnOut.estimatedTrafficClass = High) <=> high
           /\ (fnOut.estimatedTrafficClass = Mid) <=> mid
           /\ (~high /\ ~mid /\ (CallPages > 0 \/ CallBlogLinks > 0))
                 => fnOut.estimatedTrafficClass = Small

\* C12 amended: the class is High exactly when pages > 1000 or blog links
\* > 100 or the resource summary counts more than 1000 resources, else Mid
\* exactly when pages > 200 or blog links > 20, else Small when some signal
\* exists.
C12_BandsWithResourceFootprint ==
    TrafficReturned =>
        LET high == CallPages > 1000 \/ CallBlogLinks > 100 \/ HeavyFootprint
            mid == ~high /\ (CallPages > 200 \/ CallBlogLinks > 20)
        IN /\ (fnOut.estimatedTrafficClass = High) <=> high
           /\ (fnOut.estimatedTrafficClass = Mid) <=> mid
           /\ (~high /\ ~mid /\ (CallPages > 0 \/ CallBlogLinks > 0))
                 => fnOut.estimatedTrafficClass = Small

C12_Witness ==
    /\ TrafficReturned
    /\ CallPages = 50 /\ CallBlogLinks = 25 /\ HeavyFootprint
    /\ fnOut.estimatedTrafficClass = High

ModelReturned == fnIn.fn = "detectBusinessModel" /\ fnOut.present

\* the place of a category in the priority list of the specification
Priority(k) ==
    CASE k = "ecommerce" -> 1 [] k = "saas" -> 2 [] k = "marketplace" -> 3
      [] k = "enterprise" -> 4 [] k = "agency" -> 5 [] k = "media" -> 6
      [] k = "app_product" -> 7 [] k = "consulting" -> 8

HtmlReturned == fnIn.fn = "textToHTML" /\ fnOut.present

\* a scan of the emitted tags with the number of lists open so far: a list
\* item and a closing </ul> need an open list, and no list is open at a
\* section's closing </div> or at the end
RECURSIVE ListsBalanced(_, _)
ListsBalanced(tags, open) ==
    IF tags = <<>> THEN open = 0
    ELSE CASE Head(tags) = "<ul>" -> ListsBalanced(Tail(tags), open + 1)
           [] Head(tags) = "</ul>" -> open > 0 /\ ListsBalanced(Tail(tags), open - 1)
           [] Head(tags) = "<li>" -> open > 0 /\ ListsBalanced(Tail(tags), open)
           [] Head(tags) = "</div>" -> open = 0 /\ ListsBalanced(Tail(tags), open)
           [] OTHER -> ListsBalanced(Tail(tags), open)

\* C30: for every sequence of heading, bullet and paragraph lines textToHTML
\* emits balanced list markup: each <ul> is closed once before its
\* section's </div>, every <li> lies inside an open <ul>, and no </ul>
\* comes without an open <ul>.
C30_ListMarkupBalanced ==
    HtmlReturned => ListsBalanced(fnOut.html, 0)

====
